---- MODULE Spec2Model ----
(***************************************************************************)
(* The jobs controller of jobsApp (src/controllers/jobs.js): the six       *)
(* request handlers over the Job collection.  A request is one action: the *)
(* handler runs against the collection as it is at that instant (its store *)
(* calls see one snapshot) and leaves its reply in resp.                   *)
(*                                                                         *)
(* Text fields that the code searches or sorts (position, search) are      *)
(* sequences of one-character strings; the other strings are opaque.       *)
(* createdAt is a month count (year * 12 + month - 1): the finest unit any *)
(* handler distinguishes is the month ($year/$month in showStats), and     *)
(* records created in the same month tie under the createdAt sorts.        *)
(*                                                                         *)
(* Spec is the controller serving requests from an empty collection, all   *)
(* within one month.  SpecQuery and SpecStats start from a collection that *)
(* spans months and serve one read request against it.                     *)
(***************************************************************************)
EXTENDS Integers, Sequences, FiniteSets, TLC

\* ---------------------------------------------------------------- bounds
\* Records ever created in one behaviour of Spec.
MaxCreated == 2
\* Records in the candidate pool of SpecQuery.
QueryPoolSize == 5
\* Records in the candidate pool of SpecStats.
StatsPoolSize == 11

\* ------------------------------------------------------ program constants
DefaultPage == 1
DefaultLimit == 10
TrendLimit == 6

\* ----------------------------------------------------------------- values
Users == {"u1", "u2"}
Statuses == {"pending", "interview", "declined"}
JobTypes == {"full-time", "part-time", "remote", "internship"}
\* req.query.<name> when the parameter is not sent (undefined).
Absent == "<absent>"
\* The first month of the clock: October 2023.
FirstMonth == 2023 * 12 + 9

Min(a, b) == IF a <= b THEN a ELSE b
Max(a, b) == IF a >= b THEN a ELSE b
Abs(a) == IF a < 0 THEN -a ELSE a
MinOf(S) == CHOOSE x \in S : \A y \in S : x <= y

\* obj[f] of a JS object, or d when the property is undefined.
Get(obj, f, d) == IF f \in DOMAIN obj THEN obj[f] ELSE d
\* obj with obj[f] = v set.
With(obj, f, v) == [g \in DOMAIN obj \cup {f} |-> IF g = f THEN v ELSE obj[g]]

\* ------------------------------------------------------------- characters
CharCode == ("A" :> 65) @@ ("B" :> 66) @@ ("a" :> 97) @@ ("b" :> 98)
Lower(c) == IF c = "A" THEN "a" ELSE IF c = "B" THEN "b" ELSE c

\* { $regex: needle, $options: "i" } on hay, for a needle of letters.
RegexI(needle, hay) ==
  \E i \in 0..(Len(hay) - Len(needle)) :
    \A k \in 1..Len(needle) : Lower(hay[i + k]) = Lower(needle[k])

\* a <= b in the store's string order (code points, a prefix first).
StrLeq(a, b) ==
  LET n == Min(Len(a), Len(b))
      diff == {i \in 1..n : a[i] # b[i]}
  IN IF diff = {} THEN Len(a) <= Len(b)
     ELSE CharCode[a[MinOf(diff)]] < CharCode[b[MinOf(diff)]]

\* ------------------------------------------------------------------ state
VARIABLES db, nextId, creatorOf, resp
vars == <<db, nextId, creatorOf, resp>>

NoResp == [op |-> "none"]

\* ------------------------------------------------------------ Job schema
\* Defaults the schema fills in at creation.
JobDefaults == [status |-> "pending", jobType |-> "full-time"]
\* The schema's validators: required text, enumerated status and jobType.
SchemaAccepts(doc) ==
  /\ doc.company # ""
  /\ doc.position # <<>>
  /\ doc.status \in Statuses
  /\ doc.jobType \in JobTypes

\* -------------------------------------------------------- store: queries
\* Does job satisfy filter (an object of field conditions)?
Matches(job, filter) ==
  \A f \in DOMAIN filter :
    IF f = "position" THEN RegexI(filter.position, job.position)
    ELSE job[f] = filter[f]

\* Job.find(filter), before sort, skip and limit.
Find(jobs, filter) == {j \in jobs : Matches(j, filter)}

\* Job.countDocuments(filter)
CountDocuments(jobs, filter) == Cardinality(Find(jobs, filter))

\* The ObjectId that Model.findByIdAnd* looks up: the id argument is cast to
\* an ObjectId, and the cast of an object that has an _id is that _id; the
\* object's other properties play no part.
CastId(arg) == [_id |-> arg._id]

\* Model.findByIdAndUpdate / findByIdAndRemove: the record selected.
FindById(jobs, arg) ==
  LET cond == CastId(arg)
  IN {j \in jobs : \A f \in DOMAIN cond :
                     IF f = "_id" THEN j.id = cond._id ELSE j[f] = cond[f]}

\* -------------------------------------------------------- getAllJobs
NoSort == [field |-> "none", dir |-> 0]

\* The .sort() the sort parameter chains onto the query, if any.
SortOf(sort) ==
  IF sort = "latest" THEN [field |-> "createdAt", dir |-> -1]
  ELSE IF sort = "oldest" THEN [field |-> "createdAt", dir |-> 1]
  ELSE IF sort = "a-z" THEN [field |-> "position", dir |-> 1]
  ELSE IF sort = "z-a" THEN [field |-> "position", dir |-> -1]
  ELSE NoSort

\* May a come before b in a result sorted by s?  Without a sort any record
\* may: the store's natural order is not specified.
MayPrecede(s, a, b) ==
  IF s.field = "createdAt"
    THEN IF s.dir = 1 THEN a.createdAt <= b.createdAt
                      ELSE a.createdAt >= b.createdAt
  ELSE IF s.field = "position"
    THEN IF s.dir = 1 THEN StrLeq(a.position, b.position)
                      ELSE StrLeq(b.position, a.position)
  ELSE TRUE

\* The sequences in which the store may return the records S under sort s.
RECURSIVE Cursor(_, _)
Cursor(S, s) ==
  IF S = {} THEN {<<>>}
  ELSE UNION {{<<x>> \o rest : rest \in Cursor(S \ {x}, s)} :
                x \in {m \in S : \A y \in S : MayPrecede(s, m, y)}}

\* Number(v) of a query-string value: [nan, val].
Numeral == ("" :> 0) @@ ("0" :> 0) @@ ("-1" :> -1) @@ ("-2" :> -2)
           @@ ("1" :> 1) @@ ("2" :> 2) @@ ("3" :> 3)
Number(v) == IF v \in DOMAIN Numeral THEN [nan |-> FALSE, val |-> Numeral[v]]
             ELSE [nan |-> TRUE, val |-> 0]
\* Number(v) || d: d when Number(v) is NaN or 0
NumberOr(v, d) == IF Number(v).nan \/ Number(v).val = 0 THEN d ELSE Number(v).val

\* A JS string used as a condition.
Truthy(v) == v # Absent /\ v # ""

\* queryObject without the createdBy condition.
QueryObjectUnscoped(userId, q) ==
  LET o0 == <<>>
      o1 == IF q.search # <<>> THEN With(o0, "position", q.search) ELSE o0
      o2 == IF Truthy(q.status) /\ q.status # "all"
              THEN With(o1, "status", q.status) ELSE o1
  IN IF Truthy(q.jobType) /\ q.jobType # "all" THEN With(o2, "jobType", q.jobType)
     ELSE o2
\* queryObject as getAllJobs builds it.
QueryObject(userId, q) ==
  LET o0 == [createdBy |-> userId]
      o1 == IF q.search # <<>> THEN With(o0, "position", q.search) ELSE o0
      o2 == IF Truthy(q.status) /\ q.status # "all"
              THEN With(o1, "status", q.status) ELSE o1
  IN IF Truthy(q.jobType) /\ q.jobType # "all" THEN With(o2, "jobType", q.jobType)
     ELSE o2

\* .limit(limit) alone.
WindowFromStart(ord, skip, limit) == SubSeq(ord, 1, Min(Abs(limit), Len(ord)))
\* .skip(skip).limit(limit) on the cursor: a negative limit asks for one
\* batch of that many.
Window(ord, skip, limit) ==
  SubSeq(ord, skip + 1, Min(skip + Abs(limit), Len(ord)))

\* Math.floor(a / b) for a >= 0 and b # 0.
CeilFloor(a, b) == IF b > 0 THEN a \div b ELSE -(a \div (-b))
\* Math.ceil(a / b) for a >= 0 and b # 0.
Ceil(a, b) == IF b > 0 THEN (a + b - 1) \div b ELSE -(a \div (-b))

getAllJobs(userId, q) ==
  LET queryObject == QueryObject(userId, q)
      page == NumberOr(q.page, DefaultPage)
      limit == NumberOr(q.limit, DefaultLimit)
      skip == (page - 1) * limit
      totalJobs == CountDocuments(db, queryObject)
  IN /\ IF skip < 0
          THEN \* the store rejects a negative skip; the handler throws
               resp' = [op |-> "getAllJobs", user |-> userId, query |-> q,
                        code |-> 500]
          ELSE \E ord \in Cursor(Find(db, queryObject), SortOf(q.sort)) :
                 resp' = [op |-> "getAllJobs", user |-> userId, query |-> q,
                          code |-> 200,
                          jobs |-> Window(ord, skip, limit),
                          totalJobs |-> totalJobs,
                          numOfPages |-> Ceil(totalJobs, limit)]
     /\ UNCHANGED <<db, nextId, creatorOf>>

\* -------------------------------------------------------- getJob
getJob(userId, jobId) ==
  LET found == Find(db, [id |-> jobId, createdBy |-> userId])
  IN /\ resp' = IF found = {}
                  THEN [op |-> "getJob", user |-> userId, jobId |-> jobId,
                        code |-> 404]
                  ELSE [op |-> "getJob", user |-> userId, jobId |-> jobId,
                        code |-> 200, job |-> CHOOSE j \in found : TRUE]
     /\ UNCHANGED <<db, nextId, creatorOf>>

\* -------------------------------------------------------- createJob
\* req.body.createdBy = req.user.userId
OwnerFromCaller(userId, body) == userId

createJob(userId, body, now) ==
  LET doc == [id |-> nextId,
              createdBy |-> OwnerFromCaller(userId, body),
              company |-> Get(body, "company", ""),
              position |-> Get(body, "position", <<>>),
              status |-> Get(body, "status", JobDefaults.status),
              jobType |-> Get(body, "jobType", JobDefaults.jobType),
              createdAt |-> now]
  IN /\ nextId <= MaxCreated
     /\ IF SchemaAccepts(doc)
          THEN /\ db' = db \cup {doc}
               /\ nextId' = nextId + 1
               /\ creatorOf' = (nextId :> userId) @@ creatorOf
               /\ resp' = [op |-> "createJob", user |-> userId, code |-> 201,
                           job |-> doc]
          ELSE /\ resp' = [op |-> "createJob", user |-> userId, code |-> 400]
               /\ UNCHANGED <<db, nextId, creatorOf>>

\* -------------------------------------------------------- updateJob
\* The record after the update document (req.body) is applied.
ApplyUpdate(job, body) ==
  [id |-> job.id,
   createdBy |-> Get(body, "createdBy", job.createdBy),
   company |-> Get(body, "company", job.company),
   position |-> Get(body, "position", job.position),
   status |-> Get(body, "status", job.status),
   jobType |-> Get(body, "jobType", job.jobType),
   createdAt |-> job.createdAt]

updateJob(userId, jobId, body) ==
  LET found == FindById(db, [_id |-> jobId, createdBy |-> userId])
      old == CHOOSE j \in found : TRUE
      new == ApplyUpdate(old, body)
      reply(code) == [op |-> "updateJob", user |-> userId, jobId |-> jobId,
                      code |-> code]
  IN /\ IF Get(body, "company", "x") = "" \/ Get(body, "position", <<"x">>) = <<>>
          THEN resp' = reply(400) /\ db' = db
        ELSE IF found = {}
          THEN resp' = reply(404) /\ db' = db
        ELSE IF ~SchemaAccepts(new)
          THEN resp' = reply(400) /\ db' = db
        ELSE /\ db' = (db \ {old}) \cup {new}
             /\ resp' = With(reply(200), "job", new)
     /\ UNCHANGED <<nextId, creatorOf>>

\* -------------------------------------------------------- deleteJob
deleteJob(userId, jobId) ==
  LET found == FindById(db, [_id |-> jobId, createdBy |-> userId])
      reply(code) == [op |-> "deleteJob", user |-> userId, jobId |-> jobId,
                      code |-> code]
  IN /\ IF found = {}
          THEN resp' = reply(404) /\ db' = db
          ELSE /\ resp' = reply(200)
               /\ db' = db \ found
     /\ creatorOf' = [i \in {j.id : j \in db'} |-> creatorOf[i]]
     /\ UNCHANGED nextId

\* -------------------------------------------------------- showStats
\* No $match stage.
OwnedByAnyone(jobs, userId) == jobs
\* { $match: { createdBy: ObjectId(userId) } }
OwnedBy(jobs, userId) == {j \in jobs : j.createdBy = userId}

\* { $year: "$createdAt" } and { $month: "$createdAt" } (1 to 12).
YearOf(t) == t \div 12
MonthOf(t) == (t % 12) + 1

\* { $group: { _id: "$status", count: { $sum: 1 } } }
GroupByStatus(jobs) ==
  {[_id |-> k, count |-> Cardinality({j \in jobs : j.status = k})] :
     k \in {j.status : j \in jobs}}

\* stats.reduce(...): the groups as one object, title -> count.
ReduceStats(groups) ==
  [title \in {g._id : g \in groups} |->
     (CHOOSE g \in groups : g._id = title).count]

\* obj[f] || 0
OrZero(obj, f) == IF f \in DOMAIN obj /\ obj[f] # 0 THEN obj[f] ELSE 0

\* { $group: { _id: { year, month }, count: { $sum: 1 } } }
GroupByMonth(jobs) ==
  {[_id |-> [year |-> YearOf(t), month |-> MonthOf(t)],
    count |-> Cardinality({j \in jobs : j.createdAt = t})] :
     t \in {j.createdAt : j \in jobs}}

\* { $sort: { "_id.month": -1 } }
NewerByMonthOnly(g, h) == g._id.month >= h._id.month
\* Does group g come no later than h under
\* { $sort: { "_id.year": -1, "_id.month": -1 } }?
Newer(g, h) ==
  \/ g._id.year > h._id.year
  \/ g._id.year = h._id.year /\ g._id.month >= h._id.month

\* The groups in the order of the $sort stage.
RECURSIVE SortGroups(_)
SortGroups(groups) ==
  IF groups = {} THEN <<>>
  ELSE LET first == CHOOSE g \in groups : \A h \in groups : Newer(g, h)
       IN <<first>> \o SortGroups(groups \ {first})

\* { $limit: n }
Limit(s, n) == SubSeq(s, 1, Min(n, Len(s)))

Reverse(s) == [i \in 1..Len(s) |-> s[Len(s) + 1 - i]]

\* moment: a date is [year, month (0 to 11), date].
IsLeapYear(y) == (y % 4 = 0 /\ y % 100 # 0) \/ y % 400 = 0
DaysInMonth(y, m) ==
  IF m = 1 THEN (IF IsLeapYear(y) THEN 29 ELSE 28)
  ELSE IF m \in {3, 5, 8, 10} THEN 30 ELSE 31
\* .month(v), v in 0..11: the day of the month is clamped to the new month.
SetMonth(mom, v) ==
  [year |-> mom.year, month |-> v, date |-> Min(mom.date, DaysInMonth(mom.year, v))]
\* .year(y): 29 February is clamped to the new year's February.
SetYear(mom, y) ==
  [year |-> y, month |-> mom.month, date |-> Min(mom.date, DaysInMonth(y, mom.month))]
MonthsShort == <<"Jan", "Feb", "Mar", "Apr", "May", "Jun",
                 "Jul", "Aug", "Sep", "Oct", "Nov", "Dec">>
\* .format("MMM Y")
FormatMMMY(mom) == <<MonthsShort[mom.month + 1], mom.year>>

\* moment().month(month - 1).year(year).format("MMM Y")
DateLabel(year, month, today) ==
  FormatMMMY(SetYear(SetMonth(today, month - 1), year))

showStats(userId, today) ==
  LET stats == ReduceStats(GroupByStatus(OwnedBy(db, userId)))
      defaultStats == [pending |-> OrZero(stats, "pending"),
                       interview |-> OrZero(stats, "interview"),
                       declined |-> OrZero(stats, "declined")]
      groups == Limit(SortGroups(GroupByMonth(OwnedBy(db, userId))), TrendLimit)
      monthlyApplications ==
        Reverse([i \in 1..Len(groups) |->
                   [date |-> DateLabel(groups[i]._id.year, groups[i]._id.month, today),
                    count |-> groups[i].count]])
  IN /\ resp' = [op |-> "showStats", user |-> userId, code |-> 200,
                 defaultStats |-> defaultStats,
                 monthlyApplications |-> monthlyApplications]
     /\ UNCHANGED <<db, nextId, creatorOf>>

\* -------------------------------------------------------- requests of Spec
CreateBodies ==
  {[company |-> "acme", position |-> <<"a">>],
   [company |-> "", position |-> <<"a">>]}
  \cup {[company |-> "acme", position |-> <<"a">>, createdBy |-> v] : v \in Users}
UpdateBodies ==
  {[position |-> <<"B">>], [company |-> ""], [status |-> "bogus"]}
  \cup {[createdBy |-> v] : v \in Users}
Paging == {[page |-> Absent, limit |-> Absent], [page |-> "2", limit |-> "1"]}
Filtering == {[status |-> Absent, jobType |-> Absent, sort |-> Absent],
              [status |-> "pending", jobType |-> "full-time", sort |-> "z-a"]}
Queries ==
  {[search |-> s, status |-> f.status, jobType |-> f.jobType, sort |-> f.sort,
    page |-> pl.page, limit |-> pl.limit] :
     s \in {<<>>, <<"b">>}, f \in Filtering, pl \in Paging}
JobIds == 1..MaxCreated

TypeOK ==
  /\ nextId \in 1..(MaxCreated + 1)
  /\ \A j \in db : j.id \in 1..(nextId - 1)
  /\ DOMAIN creatorOf = {j.id : j \in db}
  /\ \A j, k \in db : j.id = k.id => j = k

Init ==
  /\ db = {}
  /\ nextId = 1
  /\ creatorOf = <<>>
  /\ resp = NoResp

CreateJob == \E u \in Users, b \in CreateBodies : createJob(u, b, FirstMonth)
UpdateJob == \E u \in Users, id \in JobIds, b \in UpdateBodies : updateJob(u, id, b)
DeleteJob == \E u \in Users, id \in JobIds : deleteJob(u, id)
GetJob == \E u \in Users, id \in JobIds : getJob(u, id)
GetAllJobs == \E u \in Users, q \in Queries : getAllJobs(u, q)
ShowStats == \E u \in Users : showStats(u, [year |-> 2023, month |-> 9, date |-> 31])

Next == CreateJob \/ UpdateJob \/ DeleteJob \/ GetJob \/ GetAllJobs \/ ShowStats

Spec == Init /\ [][Next]_vars

\* ------------------------------------------------- SpecQuery: one getAllJobs
\* The i-th record of a collection built by QueryPoolSize creations (and
\* later updates of position, status and jobType) over three months.
QueryPoolJob(i) ==
  LET k == ((i - 1) % 6) + 1
  IN [id |-> i,
      createdBy |-> <<"u1", "u1", "u2", "u1", "u1", "u2">>[k],
      company |-> "acme",
      position |-> << <<"a">>, <<"B">>, <<"a">>, <<"a", "b">>, <<"a">>, <<"b">> >>[k],
      status |-> <<"pending", "interview", "pending", "pending", "declined",
                   "pending">>[k],
      jobType |-> <<"full-time", "remote", "full-time", "remote", "full-time",
                    "part-time">>[k],
      createdAt |-> FirstMonth + ((i - 1) \div 2)]
QueryPool == {QueryPoolJob(i) : i \in 1..QueryPoolSize}

AllQueries ==
  [search : {<<>>, <<"A">>},
   status : {Absent, "all", "pending", "bogus"},
   jobType : {Absent, "all", "remote", "bogus"},
   sort : {Absent, "latest", "oldest", "a-z", "z-a", "bogus"},
   page : {Absent, "abc", "0", "-1", "1", "2", "3"},
   limit : {Absent, "abc", "0", "-2", "1", "2"}]

InitQuery ==
  /\ db \in SUBSET QueryPool
  /\ nextId = QueryPoolSize + 1
  /\ creatorOf = [i \in {j.id : j \in db} |-> QueryPoolJob(i).createdBy]
  /\ resp = NoResp

ServeGetAllJobs ==
  /\ resp = NoResp
  /\ \E u \in Users, q \in AllQueries : getAllJobs(u, q)

SpecQuery == InitQuery /\ [][ServeGetAllJobs]_vars

\* ------------------------------------------------- SpecStats: one showStats
\* The i-th record of a collection built by StatsPoolSize creations from
\* October 2023 on, at most two a month.
StatsPoolJob(i) ==
  [id |-> i,
   createdBy |-> IF i % 5 = 0 THEN "u2" ELSE "u1",
   company |-> "acme",
   position |-> <<"a">>,
   status |-> <<"pending", "interview", "declined">>[(i % 3) + 1],
   jobType |-> "full-time",
   createdAt |-> FirstMonth + <<0, 1, 2, 3, 3, 4, 4, 5, 6, 7, 8, 9>>[((i - 1) % 12) + 1]]
StatsPool == {StatsPoolJob(i) : i \in 1..StatsPoolSize}

\* The days on which the statistics are asked for (moment()).
Todays ==
  {[year |-> 2024, month |-> 1, date |-> 29],
   [year |-> 2024, month |-> 6, date |-> 31],
   [year |-> 2025, month |-> 0, date |-> 15]}

InitStats ==
  /\ db \in SUBSET StatsPool
  /\ nextId = StatsPoolSize + 1
  /\ creatorOf = [i \in {j.id : j \in db} |-> StatsPoolJob(i).createdBy]
  /\ resp = NoResp

ServeShowStats ==
  /\ resp = NoResp
  /\ \E u \in Users, today \in Todays : showStats(u, today)

SpecStats == InitStats /\ [][ServeShowStats]_vars

\* ================================================================ claims
IsList == resp.op = "getAllJobs" /\ resp.code = 200
IsStats == resp.op = "showStats"

\* The filter a request asks for: search text inside position (any letter
\* case), and status and jobType equal to the parameter unless the parameter
\* is absent, empty or "all".
RequestAdmits(q, j) ==
  /\ q.search = <<>> \/ RegexI(q.search, j.position)
  /\ q.status \in {Absent, "", "all"} \/ j.status = q.status
  /\ q.jobType \in {Absent, "", "all"} \/ j.jobType = q.jobType
Admitted(u, q) == {j \in db : j.createdBy = u /\ RequestAdmits(q, j)}

\* C1: every record getAllJobs returns is owned by the requesting user, and
\* totalJobs counts that user's records that pass the filter and no others,
\* whatever creations, updates and deletions came before.
C1_OwnerScopedList ==
  IsList =>
    /\ \A i \in 1..Len(resp.jobs) : resp.jobs[i].createdBy = resp.user
    /\ resp.totalJobs = Cardinality(Admitted(resp.user, resp.query))
    /\ resp.totalJobs <= Cardinality({j \in db : j.createdBy = resp.user})
\* A list that returns records while the other user holds a record the same
\* filter admits, after an update moved a record to another owner.
C1_Witness ==
  /\ IsList
  /\ Len(resp.jobs) >= 1
  /\ \E j \in db : j.createdBy # resp.user /\ RequestAdmits(resp.query, j)
  /\ \E j \in db : creatorOf[j.id] # j.createdBy

\* C2: an updateJob or deleteJob that names a record the caller does not own
\* (owned by another user, or not there) answers NotFound and leaves the
\* collection as it was.  (A body with an empty company or position is
\* rejected before the lookup and is left out.)
C2_NonOwnerGetsNotFound ==
  [][(/\ resp'.op \in {"updateJob", "deleteJob"}
      /\ resp'.code # 400
      /\ ~ \E j \in db : j.id = resp'.jobId /\ j.createdBy = resp'.user)
     => (resp'.code = 404 /\ db' = db)]_vars

\* C3: every stored record is owned by the user whose createJob created it.
C3_OwnerIsCreator == \A j \in db : j.createdBy = creatorOf[j.id]

\* The limit getAllJobs works with: the parameter as a number, 10 when it is
\* absent, not a number or 0.
EffectiveLimit(q) ==
  IF q.limit \in DOMAIN Numeral /\ Numeral[q.limit] # 0 THEN Numeral[q.limit] ELSE 10
EffectivePage(q) ==
  IF q.page \in DOMAIN Numeral /\ Numeral[q.page] # 0 THEN Numeral[q.page] ELSE 1

\* C4: totalJobs is the number of the user's records that pass the filter,
\* whatever page and limit are, and numOfPages is ceil(totalJobs / limit) for
\* the effective limit (the least n with n * limit >= totalJobs when the limit
\* is positive), which is 0 when totalJobs is 0.
C4_TotalsAndPages ==
  IsList =>
    LET total == Cardinality(Admitted(resp.user, resp.query))
        L == EffectiveLimit(resp.query)
        n == resp.numOfPages
    IN /\ resp.totalJobs = total
       /\ IF L > 0 THEN n * L >= total /\ (n - 1) * L < total
                   ELSE n * L <= total /\ (n - 1) * L > total
       /\ total = 0 => n = 0
\* Three matches at limit 2 make two pages, asked for from page 3.
C4_Witness ==
  /\ IsList
  /\ resp.totalJobs = 3 /\ resp.query.limit = "2" /\ resp.query.page = "3"
  /\ resp.numOfPages = 2

\* C5: for page p >= 1 and limit L >= 1 the reply holds exactly the records
\* ranked (p-1)*L+1 to min(p*L, totalJobs) of the filtered set in the order of
\* the sort the request selects: that many records, in that order, preceded in
\* the order by (p-1)*L others and followed by the rest; a page past the last
\* is empty, with the totals unchanged.
C5_PageWindow ==
  (IsList /\ EffectivePage(resp.query) >= 1 /\ EffectiveLimit(resp.query) >= 1) =>
    LET M == Admitted(resp.user, resp.query)
        total == Cardinality(M)
        p == EffectivePage(resp.query)
        L == EffectiveLimit(resp.query)
        s == SortOf(resp.query.sort)
        J == {resp.jobs[i] : i \in 1..Len(resp.jobs)}
    IN /\ Len(resp.jobs) = Max(0, Min(p * L, total) - (p - 1) * L)
       /\ Cardinality(J) = Len(resp.jobs)
       /\ J \subseteq M
       /\ \A i \in 1..(Len(resp.jobs) - 1) :
            MayPrecede(s, resp.jobs[i], resp.jobs[i + 1])
       /\ \E B \in SUBSET (M \ J) :
            /\ Cardinality(B) = Min((p - 1) * L, total)
            /\ \A b \in B, x \in M \ B : MayPrecede(s, b, x)
            /\ \A j \in J, a \in (M \ J) \ B : MayPrecede(s, j, a)
       /\ (p - 1) * L >= total => resp.jobs = <<>>
       /\ resp.totalJobs = total
\* Four matches at limit 2, oldest first: page 2 holds the two newest.
C5_Witness ==
  /\ IsList
  /\ resp.query.page = "2" /\ resp.query.limit = "2" /\ resp.query.sort = "oldest"
  /\ resp.totalJobs = 4 /\ Len(resp.jobs) = 2
  /\ resp.jobs[1].createdAt < resp.jobs[2].createdAt

\* The page and limit of a request when only positive numbers count.
ClaimedPage(q) ==
  IF q.page \in DOMAIN Numeral /\ Numeral[q.page] > 0 THEN Numeral[q.page] ELSE 1
ClaimedLimit(q) ==
  IF q.limit \in DOMAIN Numeral /\ Numeral[q.limit] > 0 THEN Numeral[q.limit] ELSE 10
\* C6: a page or limit that is absent, not a number, zero or negative counts
\* as page 1 or limit 10: the request is answered, with the window and the
\* page count of that page and limit.
C6_PagingFallsBack ==
  resp.op = "getAllJobs" =>
    /\ resp.code = 200
    /\ LET total == Cardinality(Admitted(resp.user, resp.query))
           p == ClaimedPage(resp.query)
           L == ClaimedLimit(resp.query)
       IN /\ Len(resp.jobs) = Max(0, Min(p * L, total) - (p - 1) * L)
          /\ resp.numOfPages * L >= total
          /\ (resp.numOfPages - 1) * L < total

\* The sort table with latest as the default.
InClaimedOrder(sort, a, b) ==
  IF sort = "oldest" THEN a.createdAt <= b.createdAt
  ELSE IF sort = "a-z" THEN StrLeq(a.position, b.position)
  ELSE IF sort = "z-a" THEN StrLeq(b.position, a.position)
  ELSE a.createdAt >= b.createdAt
\* C7: the reply is ordered by createdAt descending for latest, createdAt
\* ascending for oldest, position ascending for a-z, position descending for
\* z-a, and as for latest when sort is absent or anything else.
C7_SortOrder ==
  IsList =>
    \A i \in 1..(Len(resp.jobs) - 1) :
      InClaimedOrder(resp.query.sort, resp.jobs[i], resp.jobs[i + 1])

\* The filter when only enumerated values of status and jobType filter.
ClaimAdmits(q, j) ==
  /\ q.search = <<>> \/ RegexI(q.search, j.position)
  /\ q.status \notin Statuses \/ j.status = q.status
  /\ q.jobType \notin JobTypes \/ j.jobType = q.jobType
\* C8: a status or jobType that is absent, "all" or not an enumerated value
\* filters nothing; only an enumerated value filters, by equality.
C8_OnlyEnumeratedFilters ==
  IsList =>
    resp.totalJobs =
      Cardinality({j \in db : j.createdBy = resp.user /\ ClaimAdmits(resp.query, j)})

\* C9: defaultStats has exactly the keys pending, interview and declined,
\* each the number (>= 0) of the requesting user's records with that status;
\* when all the user's records have one of the three, they sum to the number
\* of the user's records.
C9_StatusCounts ==
  IsStats =>
    LET own == {j \in db : j.createdBy = resp.user}
        d == resp.defaultStats
    IN /\ DOMAIN d = {"pending", "interview", "declined"}
       /\ \A k \in DOMAIN d :
            d[k] >= 0 /\ d[k] = Cardinality({j \in own : j.status = k})
       /\ (\A j \in own : j.status \in {"pending", "interview", "declined"})
            => d.pending + d.interview + d.declined = Cardinality(own)
\* A user with records but none in interview, beside another user's records
\* in interview.
C9_Witness ==
  /\ IsStats
  /\ resp.defaultStats.pending >= 2
  /\ resp.defaultStats.interview = 0
  /\ \E j \in db : j.createdBy # resp.user /\ j.status = "interview"

\* C10: monthlyApplications lists, oldest first, the six most recent months in
\* which the requesting user created a record (all of them if fewer, months
\* without records left out), each with the number of the user's records of
\* that month and the label of that month and year; no records, no entries.
C10_MonthlyTrend ==
  IsStats =>
    LET own == {j \in db : j.createdBy = resp.user}
        months == {j.createdAt : j \in own}
        recent == {b \in months : Cardinality({c \in months : c > b}) < 6}
        m == resp.monthlyApplications
    IN /\ Len(m) = Cardinality(recent)
       /\ Len(m) <= 6
       /\ own = {} => m = <<>>
       /\ \A i \in 1..Len(m) :
            LET b == CHOOSE c \in recent :
                       Cardinality({e \in recent : e < c}) = i - 1
            IN /\ m[i].count = Cardinality({j \in own : j.createdAt = b})
               /\ m[i].date = <<MonthsShort[(b % 12) + 1], b \div 12>>
\* Eight months with records, with a gap, across a new year: six are listed,
\* one of them with two records.
C10_Witness ==
  /\ IsStats
  /\ Cardinality({j.createdAt : j \in {k \in db : k.createdBy = resp.user}}) = 8
  /\ Len(resp.monthlyApplications) = 6
  /\ resp.monthlyApplications[1].date = <<"Dec", 2023>>
  /\ resp.monthlyApplications[6].date = <<"Jun", 2024>>
  /\ \E i \in 1..6 : resp.monthlyApplications[i].count = 2
====
